---- MODULE Spec2Model ----
(***************************************************************************)
(* Model of yazi-shared/src/escape.rs: the POSIX escaper (mod unix) and    *)
(* the Windows escaper (mod windows).  A text value is a sequence of code  *)
(* units, each a natural number: a byte (0..255) on POSIX, a 16-bit unit   *)
(* (0..65535) on Windows.  One call of escape is run step by step: the     *)
(* fast-path test, then one action per loop iteration, then the return.    *)
(* A caller joins the returned values with single spaces into a line.      *)
(***************************************************************************)
EXTENDS Integers, Naturals, Sequences, FiniteSets, TLC

VARIABLES
    platform,   \* "unix" or "windows": which mod is compiled in (cfg)
    args,       \* the inputs the caller escapes, in order
    k,          \* index in args of the input of the current call
    pc,         \* "call", "loop", "ret" (escape returned), "done"
    pos,        \* 1-based index of the next unit the iterator yields
    escaped,    \* the Vec being built
    slashes,    \* windows: local `slashes` after the last inner while
    iters,      \* number of bodies of the scanning loop run in this call
    result,     \* the units of the returned Cow
    borrowed,   \* TRUE for Cow::Borrowed, FALSE for Cow::Owned
    line        \* the caller's command line so far

vars == <<platform, args, k, pc, pos, escaped, slashes, iters, result, borrowed, line>>

(***************************************************************************)
(* Code units named in the source.                                         *)
(***************************************************************************)
SQuote == 39
Bang == 33
Backslash == 92
DQuote == 34
Space == 32
Tab == 9
Newline == 10

(***************************************************************************)
(* Bounds of the model.                                                    *)
(***************************************************************************)
MaxLen == 3
MaxCatLine == 5
MaxIters == 8

\* Separator used only to enumerate lists of inputs; it is no code unit.
Sep == 0 - 1

\* a + : @ ' ! \ space newline " $ 0x80
UnixAlphabet == {97, 43, 58, 64, SQuote, Bang, Backslash, Space, Newline, DQuote, 36, 128}
\* a \ " space tab newline, a high surrogate, a low surrogate
WinAlphabet == {97, Backslash, DQuote, Space, Tab, Newline, 55297, 56320}
UnixCatAlphabet == {97, SQuote, Backslash, Space}
WinCatAlphabet == {97, DQuote, Backslash, Space}

SeqsUpTo(S, n) == UNION {[1..m -> S] : m \in 0..n}

Rep(c, n) == [j \in 1..n |-> c]

(***************************************************************************)
(* mod unix                                                                *)
(***************************************************************************)
\* allowed with the digit range one too wide (accepts ':')
allowed_colon(b) ==
    \/ b \in 97..122
    \/ b \in 65..90
    \/ b \in 48..58
    \/ b \in {45, 95, 61, 47, 44, 46, 43}

\* fn allowed(b: u8) -> bool
allowed(b) ==
    \/ b \in 97..122
    \/ b \in 65..90
    \/ b \in 48..57
    \/ b \in {45, 95, 61, 47, 44, 46, 43}

\* the fast-path test of unix::escape
unix_fast(bytes) == bytes # <<>> /\ \A j \in 1..Len(bytes) : allowed(bytes[j])

\* unix_arm that escapes ' and ! without leaving the quoted span
unix_arm_noclose(b) ==
    IF b = SQuote \/ b = Bang THEN <<Backslash, b>> ELSE <<b>>

\* unix_arm that treats only ' specially, not !
unix_arm_nobang(b) ==
    IF b = SQuote THEN <<SQuote, Backslash, b, SQuote>> ELSE <<b>>

\* the match of the for loop: what one byte pushes onto escaped
unix_arm(b) ==
    IF b = SQuote \/ b = Bang THEN <<SQuote, Backslash, b, SQuote>> ELSE <<b>>

RECURSIVE unix_body(_)
unix_body(bytes) ==
    IF bytes = <<>> THEN <<>> ELSE unix_arm(Head(bytes)) \o unix_body(Tail(bytes))

\* pub fn escape(s: &OsStr) -> Cow<'_, OsStr>, as a function of the bytes
unix_escape(bytes) ==
    IF unix_fast(bytes) THEN bytes ELSE <<SQuote>> \o unix_body(bytes) \o <<SQuote>>

(***************************************************************************)
(* mod windows                                                             *)
(***************************************************************************)
\* char::from_u32 of a 16-bit unit is None exactly on the surrogates
from_u32_is_some(b) == ~(b \in 55296..57343)

\* disallowed without the tab
disallowed_notab(b) ==
    IF from_u32_is_some(b) THEN b \in {Space, DQuote, Newline} ELSE TRUE

\* pub fn disallowed(b: u16) -> bool
disallowed(b) ==
    IF from_u32_is_some(b) THEN b \in {Space, DQuote, Newline, Tab} ELSE TRUE

\* the fast-path test of windows::escape
windows_fast(wide) == wide # <<>> /\ ~(\E j \in 1..Len(wide) : disallowed(wide[j]))

\* while chars.next_if_eq(&'\\').is_some() { slashes += 1 }, from index p
RECURSIVE count_slashes(_, _)
count_slashes(wide, p) ==
    IF p <= Len(wide) /\ wide[p] = Backslash THEN 1 + count_slashes(wide, p + 1) ELSE 0

\* win_iter whose quote arm does not double the run
win_iter_quote_plain(wide, p) ==
    LET n == count_slashes(wide, p)
        q == p + n
    IN  IF q > Len(wide)
        THEN [slashes |-> n, emit |-> Rep(Backslash, n * 2), next |-> q, brk |-> TRUE]
        ELSE IF wide[q] = DQuote
        THEN [slashes |-> n, emit |-> Rep(Backslash, n + 1) \o <<DQuote>>,
              next |-> q + 1, brk |-> FALSE]
        ELSE [slashes |-> n, emit |-> Rep(Backslash, n) \o <<wide[q]>>,
              next |-> q + 1, brk |-> FALSE]

\* win_iter whose quote arm leaves out the escaping backslash
win_iter_quote_even(wide, p) ==
    LET n == count_slashes(wide, p)
        q == p + n
    IN  IF q > Len(wide)
        THEN [slashes |-> n, emit |-> Rep(Backslash, n * 2), next |-> q, brk |-> TRUE]
        ELSE IF wide[q] = DQuote
        THEN [slashes |-> n, emit |-> Rep(Backslash, n * 2) \o <<DQuote>>,
              next |-> q + 1, brk |-> FALSE]
        ELSE [slashes |-> n, emit |-> Rep(Backslash, n) \o <<wide[q]>>,
              next |-> q + 1, brk |-> FALSE]

\* win_iter whose None arm does not double the run
win_iter_end_plain(wide, p) ==
    LET n == count_slashes(wide, p)
        q == p + n
    IN  IF q > Len(wide)
        THEN [slashes |-> n, emit |-> Rep(Backslash, n), next |-> q, brk |-> TRUE]
        ELSE IF wide[q] = DQuote
        THEN [slashes |-> n, emit |-> Rep(Backslash, n * 2 + 1) \o <<DQuote>>,
              next |-> q + 1, brk |-> FALSE]
        ELSE [slashes |-> n, emit |-> Rep(Backslash, n) \o <<wide[q]>>,
              next |-> q + 1, brk |-> FALSE]

\* win_iter whose None arm pushes one backslash too many
win_iter_end_odd(wide, p) ==
    LET n == count_slashes(wide, p)
        q == p + n
    IN  IF q > Len(wide)
        THEN [slashes |-> n, emit |-> Rep(Backslash, n * 2 + 1), next |-> q, brk |-> TRUE]
        ELSE IF wide[q] = DQuote
        THEN [slashes |-> n, emit |-> Rep(Backslash, n * 2 + 1) \o <<DQuote>>,
              next |-> q + 1, brk |-> FALSE]
        ELSE [slashes |-> n, emit |-> Rep(Backslash, n) \o <<wide[q]>>,
              next |-> q + 1, brk |-> FALSE]

\* win_iter whose other arm doubles the run
win_iter_other_doubled(wide, p) ==
    LET n == count_slashes(wide, p)
        q == p + n
    IN  IF q > Len(wide)
        THEN [slashes |-> n, emit |-> Rep(Backslash, n * 2), next |-> q, brk |-> TRUE]
        ELSE IF wide[q] = DQuote
        THEN [slashes |-> n, emit |-> Rep(Backslash, n * 2 + 1) \o <<DQuote>>,
              next |-> q + 1, brk |-> FALSE]
        ELSE [slashes |-> n, emit |-> Rep(Backslash, n * 2) \o <<wide[q]>>,
              next |-> q + 1, brk |-> FALSE]

\* win_iter whose other arm peeks at the unit without consuming it
win_iter_peek(wide, p) ==
    LET n == count_slashes(wide, p)
        q == p + n
    IN  IF q > Len(wide)
        THEN [slashes |-> n, emit |-> Rep(Backslash, n * 2), next |-> q, brk |-> TRUE]
        ELSE IF wide[q] = DQuote
        THEN [slashes |-> n, emit |-> Rep(Backslash, n * 2 + 1) \o <<DQuote>>,
              next |-> q + 1, brk |-> FALSE]
        ELSE [slashes |-> n, emit |-> Rep(Backslash, n) \o <<wide[q]>>,
              next |-> q, brk |-> FALSE]

\* One body of `loop`, the iterator standing at index p: the slashes counted,
\* the units pushed onto escaped, the iterator's next index, and whether the
\* body ends in break.
win_iter(wide, p) ==
    LET n == count_slashes(wide, p)
        q == p + n
    IN  IF q > Len(wide)
        THEN [slashes |-> n, emit |-> Rep(Backslash, n * 2), next |-> q, brk |-> TRUE]
        ELSE IF wide[q] = DQuote
        THEN [slashes |-> n, emit |-> Rep(Backslash, n * 2 + 1) \o <<DQuote>>,
              next |-> q + 1, brk |-> FALSE]
        ELSE [slashes |-> n, emit |-> Rep(Backslash, n) \o <<wide[q]>>,
              next |-> q + 1, brk |-> FALSE]

RECURSIVE win_body(_, _)
win_body(wide, p) ==
    LET st == win_iter(wide, p)
    IN  IF st.brk THEN st.emit ELSE st.emit \o win_body(wide, st.next)

\* pub fn escape(s: &OsStr) -> Cow<'_, OsStr>, as a function of the units
windows_escape(wide) ==
    IF windows_fast(wide) THEN wide ELSE <<DQuote>> \o win_body(wide, 1) \o <<DQuote>>

(***************************************************************************)
(* The state machine.                                                      *)
(***************************************************************************)
input == args[k]

\* split a sequence over units and Sep into the list of its Sep-separated parts
RECURSIVE SplitOn(_, _, _)
SplitOn(w, cur, acc) ==
    IF w = <<>> THEN Append(acc, cur)
    ELSE IF Head(w) = Sep THEN SplitOn(Tail(w), <<>>, Append(acc, cur))
    ELSE SplitOn(Tail(w), Append(cur, Head(w)), acc)

InitRest ==
    /\ k = 1
    /\ pc = "call"
    /\ pos = 1
    /\ escaped = <<>>
    /\ slashes = 0
    /\ iters = 0
    /\ result = <<>>
    /\ borrowed = FALSE
    /\ line = <<>>

\* one input, any sequence of up to MaxLen units of the platform's alphabet
Init ==
    /\ platform \in {"unix", "windows"}
    /\ \E s \in SeqsUpTo(IF platform = "unix" THEN UnixAlphabet ELSE WinAlphabet, MaxLen) :
          args = <<s>>
    /\ InitRest

\* a list of one or more inputs, of up to MaxCatLine units and separators together
InitCat ==
    /\ platform \in {"unix", "windows"}
    /\ \E w \in SeqsUpTo((IF platform = "unix" THEN UnixCatAlphabet ELSE WinCatAlphabet)
                            \cup {Sep}, MaxCatLine) :
          args = SplitOn(w, <<>>, <<>>)
    /\ InitRest

UnixFast ==
    /\ pc = "call" /\ platform = "unix"
    /\ unix_fast(input)
    /\ result' = input
    /\ borrowed' = TRUE
    /\ pc' = "ret"
    /\ UNCHANGED <<platform, args, k, pos, escaped, slashes, iters, line>>

UnixBegin ==
    /\ pc = "call" /\ platform = "unix"
    /\ ~unix_fast(input)
    /\ escaped' = <<SQuote>>
    /\ pos' = 1
    /\ iters' = 0
    /\ pc' = "loop"
    /\ UNCHANGED <<platform, args, k, slashes, result, borrowed, line>>

UnixPush ==
    /\ pc = "loop" /\ platform = "unix"
    /\ pos <= Len(input)
    /\ escaped' = escaped \o unix_arm(input[pos])
    /\ pos' = pos + 1
    /\ iters' = iters + 1
    /\ UNCHANGED <<platform, args, k, pc, slashes, result, borrowed, line>>

UnixEnd ==
    /\ pc = "loop" /\ platform = "unix"
    /\ pos > Len(input)
    /\ escaped' = Append(escaped, SQuote)
    /\ result' = escaped'
    /\ borrowed' = FALSE
    /\ pc' = "ret"
    /\ UNCHANGED <<platform, args, k, pos, slashes, iters, line>>

WinFast ==
    /\ pc = "call" /\ platform = "windows"
    /\ windows_fast(input)
    /\ result' = input
    /\ borrowed' = TRUE
    /\ pc' = "ret"
    /\ UNCHANGED <<platform, args, k, pos, escaped, slashes, iters, line>>

WinBegin ==
    /\ pc = "call" /\ platform = "windows"
    /\ ~windows_fast(input)
    /\ escaped' = <<DQuote>>
    /\ pos' = 1
    /\ slashes' = 0
    /\ iters' = 0
    /\ pc' = "loop"
    /\ UNCHANGED <<platform, args, k, result, borrowed, line>>

\* a body of the loop that ends in one of the Some arms; iters < MaxIters caps
\* the model's counter only (the code has no such test, and the cap is never
\* reached: see C9)
WinIter ==
    /\ pc = "loop" /\ platform = "windows"
    /\ iters < MaxIters
    /\ LET st == win_iter(input, pos)
       IN  /\ ~st.brk
           /\ slashes' = st.slashes
           /\ escaped' = escaped \o st.emit
           /\ pos' = st.next
    /\ iters' = iters + 1
    /\ UNCHANGED <<platform, args, k, pc, result, borrowed, line>>

\* the body that ends in the None arm, the break, and the return
WinBreak ==
    /\ pc = "loop" /\ platform = "windows"
    /\ iters < MaxIters
    /\ LET st == win_iter(input, pos)
       IN  /\ st.brk
           /\ slashes' = st.slashes
           /\ escaped' = escaped \o st.emit \o <<DQuote>>
           /\ pos' = st.next
    /\ iters' = iters + 1
    /\ result' = escaped'
    /\ borrowed' = FALSE
    /\ pc' = "ret"
    /\ UNCHANGED <<platform, args, k, line>>

\* the caller appends the returned value to its line, after a single space
\* when the line already holds a value, and goes on to the next input
Join ==
    /\ pc = "ret"
    /\ line' = IF k = 1 THEN result ELSE line \o <<Space>> \o result
    /\ k' = k + 1
    /\ pc' = IF k < Len(args) THEN "call" ELSE "done"
    /\ UNCHANGED <<platform, args, pos, escaped, slashes, iters, result, borrowed>>

Next ==
    \/ UnixFast
    \/ UnixBegin
    \/ UnixPush
    \/ UnixEnd
    \/ WinFast
    \/ WinBegin
    \/ WinIter
    \/ WinBreak
    \/ Join

Spec == Init /\ [][Next]_vars

SpecCat == InitCat /\ [][Next]_vars

\* escape is a synchronous call on one thread: a step that can be taken is taken
FairSpec == Init /\ [][Next]_vars /\ WF_vars(Next)

(***************************************************************************)
(* The argument tokenizers the escaped values are written for.  They are   *)
(* the receiving side, not part of escape.rs.                              *)
(***************************************************************************)
\* word marking a line the tokenizer cannot finish (an unterminated quote)
BadWord == <<Sep>>

\* POSIX sh: inside '...' every byte is literal up to the next '; outside
\* quotes a backslash makes the next byte literal, blanks end a word, and
\* every other byte is literal.  q: inside quotes; started: a word is open.
RECURSIVE PosixScan(_, _, _, _, _, _)
PosixScan(l, i, q, cur, started, words) ==
    IF i > Len(l)
    THEN IF q THEN Append(words, BadWord)
         ELSE IF started THEN Append(words, cur) ELSE words
    ELSE IF q
    THEN IF l[i] = SQuote
         THEN PosixScan(l, i + 1, FALSE, cur, TRUE, words)
         ELSE PosixScan(l, i + 1, TRUE, Append(cur, l[i]), TRUE, words)
    ELSE IF l[i] = SQuote
    THEN PosixScan(l, i + 1, TRUE, cur, TRUE, words)
    ELSE IF l[i] = Backslash
    THEN IF i + 1 <= Len(l)
         THEN PosixScan(l, i + 2, FALSE, Append(cur, l[i + 1]), TRUE, words)
         ELSE PosixScan(l, i + 1, FALSE, Append(cur, Backslash), TRUE, words)
    ELSE IF l[i] \in {Space, Tab, Newline}
    THEN IF started
         THEN PosixScan(l, i + 1, FALSE, <<>>, FALSE, Append(words, cur))
         ELSE PosixScan(l, i + 1, FALSE, <<>>, FALSE, words)
    ELSE PosixScan(l, i + 1, FALSE, Append(cur, l[i]), TRUE, words)

PosixWords(l) == PosixScan(l, 1, FALSE, <<>>, FALSE, <<>>)

\* number of backslashes of l starting at index i
RECURSIVE RunFrom(_, _)
RunFrom(l, i) == IF i <= Len(l) /\ l[i] = Backslash THEN 1 + RunFrom(l, i + 1) ELSE 0

\* number of backslashes of l ending right before index i
RECURSIVE RunBefore(_, _)
RunBefore(l, i) == IF i > 1 /\ l[i - 1] = Backslash THEN 1 + RunBefore(l, i - 1) ELSE 0

\* Microsoft C runtime argv rules: 2n backslashes and a " give n backslashes
\* and toggle quoted mode; 2n+1 backslashes and a " give n backslashes and a
\* literal "; other backslashes are literal; space and tab end an argument
\* outside quoted mode only.
RECURSIVE WinScan(_, _, _, _, _, _)
WinScan(l, i, q, cur, started, words) ==
    IF i > Len(l)
    THEN IF q THEN Append(words, BadWord)
         ELSE IF started THEN Append(words, cur) ELSE words
    ELSE LET n == RunFrom(l, i)
             j == i + n
         IN  IF j <= Len(l) /\ l[j] = DQuote
             THEN IF n % 2 = 1
                  THEN WinScan(l, j + 1, q, cur \o Rep(Backslash, n \div 2) \o <<DQuote>>,
                               TRUE, words)
                  ELSE WinScan(l, j + 1, ~q, cur \o Rep(Backslash, n \div 2), TRUE, words)
             ELSE IF n > 0
             THEN WinScan(l, j, q, cur \o Rep(Backslash, n), TRUE, words)
             ELSE IF l[i] \in {Space, Tab} /\ ~q
             THEN IF started
                  THEN WinScan(l, i + 1, FALSE, <<>>, FALSE, Append(words, cur))
                  ELSE WinScan(l, i + 1, FALSE, <<>>, FALSE, words)
             ELSE WinScan(l, i + 1, q, Append(cur, l[i]), TRUE, words)

WinArgs(l) == WinScan(l, 1, FALSE, <<>>, FALSE, <<>>)

Has(s, u) == \E j \in 1..Len(s) : s[j] = u

(***************************************************************************)
(* C1.  POSIX round trip: the value unix escape returns for s, tokenized   *)
(* by sh's quoting rules, is exactly one word, and that word is s.         *)
(***************************************************************************)
C1_PosixRoundTrip ==
    (platform = "unix" /\ pc = "ret") => PosixWords(result) = <<input>>

C1_Witness ==
    /\ platform = "unix" /\ pc = "ret"
    /\ Has(input, SQuote) /\ Has(input, Bang) /\ Has(input, 128)
    /\ PosixWords(result) = <<input>>

(***************************************************************************)
(* C2.  Windows round trip: the value windows escape returns for s, parsed *)
(* by the C runtime's argv rules, is exactly one argument, and it is s.    *)
(***************************************************************************)
C2_WindowsRoundTrip ==
    (platform = "windows" /\ pc = "ret") => WinArgs(result) = <<input>>

C2_Witness ==
    /\ platform = "windows" /\ pc = "ret"
    /\ Len(input) = 3
    /\ input[1] = Backslash /\ input[2] = DQuote /\ input[3] = Backslash
    /\ WinArgs(result) = <<input>>

(***************************************************************************)
(* C3.  Token isolation: the escaped values of a list of inputs, joined by *)
(* single spaces, tokenize into exactly the inputs, in order, on POSIX and *)
(* on Windows.                                                             *)
(***************************************************************************)
C3_TokenIsolation ==
    pc = "done" =>
        /\ platform = "unix" => PosixWords(line) = args
        /\ platform = "windows" => WinArgs(line) = args

C3_Witness ==
    /\ pc = "done" /\ platform = "windows"
    /\ Len(args) = 3
    /\ args[1] # <<>> /\ args[1][Len(args[1])] = Backslash
    /\ args[2] = <<>>
    /\ Has(args[3], DQuote)
    /\ WinArgs(line) = args

(***************************************************************************)
(* C4.  POSIX fast path: unix escape returns s itself (borrowed) exactly   *)
(* when s is non-empty and all its bytes are in a-z A-Z 0-9 - _ = / , . +  *)
(* and in every other case returns a new sequence different from s.        *)
(***************************************************************************)
SafeBytes ==
    (97..122) \cup (65..90) \cup (48..57) \cup {45, 95, 61, 47, 44, 46, 43}

AllSafe(s) == s # <<>> /\ \A j \in 1..Len(s) : s[j] \in SafeBytes

C4_PosixFastPath ==
    (platform = "unix" /\ pc = "ret") =>
        /\ AllSafe(input) <=> (borrowed /\ result = input)
        /\ ~AllSafe(input) => (~borrowed /\ result # input)

C4_Witness ==
    /\ platform = "unix" /\ pc = "ret"
    /\ Len(input) = 2 /\ input[1] = 97 /\ input[2] = 58
    /\ ~borrowed /\ result # input

(***************************************************************************)
(* C5.  Windows fast path.  As claimed: windows escape returns s unchanged *)
(* exactly when s is non-empty and holds no space, double quote, newline,  *)
(* tab or unpaired surrogate (a surrogate of a well-formed pair does not   *)
(* force quoting).  As the code has it: every surrogate unit, paired or    *)
(* not, forces quoting.                                                    *)
(***************************************************************************)
IsHigh(u) == u \in 55296..56319
IsLow(u) == u \in 56320..57343

Unpaired(s, j) ==
    \/ IsHigh(s[j]) /\ ~(j < Len(s) /\ IsLow(s[j + 1]))
    \/ IsLow(s[j]) /\ ~(j > 1 /\ IsHigh(s[j - 1]))

PlainUnpairedOnly(s) ==
    /\ s # <<>>
    /\ \A j \in 1..Len(s) :
          s[j] \notin {Space, DQuote, Newline, Tab} /\ ~Unpaired(s, j)

PlainNoSurrogate(s) ==
    /\ s # <<>>
    /\ \A j \in 1..Len(s) :
          s[j] \notin {Space, DQuote, Newline, Tab} /\ ~IsHigh(s[j]) /\ ~IsLow(s[j])

C5_Original ==
    (platform = "windows" /\ pc = "ret") =>
        (PlainUnpairedOnly(input) <=> result = input)

C5_WindowsFastPath ==
    (platform = "windows" /\ pc = "ret") =>
        (PlainNoSurrogate(input) <=> (borrowed /\ result = input))

C5_Witness ==
    /\ platform = "windows" /\ pc = "ret"
    /\ Has(input, Backslash) /\ Has(input, 97)
    /\ borrowed /\ result = input

(***************************************************************************)
(* C6.  POSIX quoted output: when the input is not returned unchanged the  *)
(* result is ' then, for each byte b in order, ' \ b ' if b is ' or ! and  *)
(* b alone otherwise, then '.  The empty input gives '' and the length is  *)
(* len(s) + 2 + 3 * (number of ' and ! bytes).                             *)
(***************************************************************************)
RECURSIVE PosixChunks(_)
PosixChunks(s) ==
    IF s = <<>> THEN <<>>
    ELSE (IF Head(s) \in {SQuote, Bang}
          THEN <<SQuote, Backslash, Head(s), SQuote>>
          ELSE <<Head(s)>>) \o PosixChunks(Tail(s))

C6_PosixQuoted ==
    (platform = "unix" /\ pc = "ret" /\ ~borrowed) =>
        /\ result = <<SQuote>> \o PosixChunks(input) \o <<SQuote>>
        /\ Len(result) = Len(input) + 2
              + 3 * Cardinality({j \in 1..Len(input) : input[j] \in {SQuote, Bang}})
        /\ input = <<>> => result = <<SQuote, SQuote>>

C6_Witness ==
    /\ platform = "unix" /\ pc = "ret" /\ ~borrowed
    /\ Has(input, Bang) /\ Has(input, Backslash) /\ Has(input, 128)
    /\ Len(result) = Len(input) + 5

(***************************************************************************)
(* C7.  Windows, backslashes before a quote: a double quote of the input   *)
(* preceded by a maximal run of r backslashes is emitted as exactly        *)
(* 2r + 1 backslashes and a double quote; the input " gives " \ " ".       *)
(***************************************************************************)
LastOf(s) == s[Len(s)]

C7_QuoteRun ==
    /\ (platform = "windows" /\ pc = "loop" /\ pos > 1 /\ input[pos - 1] = DQuote) =>
          /\ LastOf(escaped) = DQuote
          /\ RunBefore(escaped, Len(escaped)) = 2 * RunBefore(input, pos - 1) + 1
    /\ (platform = "windows" /\ pc = "ret" /\ input = <<DQuote>>) =>
          result = <<DQuote, Backslash, DQuote, DQuote>>

C7_Witness ==
    /\ platform = "windows" /\ pc = "loop" /\ pos > 1 /\ input[pos - 1] = DQuote
    /\ RunBefore(input, pos - 1) = 2
    /\ RunBefore(escaped, Len(escaped)) = 5

(***************************************************************************)
(* C8.  Windows, trailing run: on the quoting path, when the input ends in *)
(* a maximal run of r backslashes, the output ends in exactly 2r           *)
(* backslashes (no backslash before them) and the closing double quote;    *)
(* the empty input gives " ".                                              *)
(***************************************************************************)
C8_TrailingRun ==
    (platform = "windows" /\ pc = "ret" /\ ~borrowed) =>
        /\ LastOf(result) = DQuote
        /\ RunBefore(result, Len(result)) = 2 * RunBefore(input, Len(input) + 1)
        /\ RunBefore(result, Len(result)) % 2 = 0
        /\ input = <<>> => result = <<DQuote, DQuote>>

C8_Witness ==
    /\ platform = "windows" /\ pc = "ret" /\ ~borrowed
    /\ RunBefore(input, Len(input) + 1) = 2
    /\ RunBefore(result, Len(result)) = 4

(***************************************************************************)
(* C9.  Totality: every call of escape returns, and the caller finishes;   *)
(* a body of the Windows scanning loop that is not the last consumes at    *)
(* least one unit, and the loop runs at most len(s) + 1 bodies.            *)
(***************************************************************************)
C9_Totality ==
    /\ <>(pc = "done")
    /\ []((pc \in {"loop", "ret"} /\ ~borrowed) => iters <= Len(input) + 1)
    /\ [][(platform = "windows" /\ pc = "loop" /\ pc' = "loop") => pos' > pos]_vars

C9_Witness ==
    /\ pc = "done" /\ platform = "windows"
    /\ Len(args[1]) = MaxLen
    /\ iters = MaxLen + 1
    /\ ~borrowed

(***************************************************************************)
(* C10.  Windows, backslashes not before a quote.  As claimed: a maximal   *)
(* run of r backslashes followed by a unit other than a double quote, or   *)
(* by the end of the input, is emitted as r backslashes, and the following *)
(* unit unchanged.  As the code has it: r backslashes before a unit other  *)
(* than a double quote, 2r backslashes at the end of the input.            *)
(***************************************************************************)
RunBeforeOther ==
    (platform = "windows" /\ pc = "loop" /\ pos > 1 /\ input[pos - 1] # DQuote) =>
        /\ LastOf(escaped) = input[pos - 1]
        /\ RunBefore(escaped, Len(escaped)) = RunBefore(input, pos - 1)

C10_Original ==
    /\ RunBeforeOther
    /\ (platform = "windows" /\ pc = "ret" /\ ~borrowed) =>
          RunBefore(result, Len(result)) = RunBefore(input, Len(input) + 1)

C10_RunNotBeforeQuote ==
    /\ RunBeforeOther
    /\ (platform = "windows" /\ pc = "ret" /\ ~borrowed) =>
          RunBefore(result, Len(result)) = RunBefore(input, Len(input) + 1) * 2

C10_Witness ==
    /\ platform = "windows" /\ pc = "loop" /\ pos > 1
    /\ input[pos - 1] = 55297
    /\ RunBefore(input, pos - 1) = 2
    /\ RunBefore(escaped, Len(escaped)) = 2

====
